---- MODULE Spec2Model ----
(***************************************************************************)
(* The three Streamlit dashboards of the repository (maintenance,          *)
(* shortage, speed) as state machines.                                     *)
(*                                                                         *)
(*   SpecFilter  one script run from the sidebar widgets to the filtered   *)
(*               table fdf / f_df, over concrete tables.                   *)
(*   Spec        the life cycle of script runs: st.cache_data around the   *)
(*               loader, the empty-table stop, the reload button.          *)
(*   SpecRender  one section of a script (metric, chart, table, default of *)
(*               a widget) computed from the table it reads.               *)
(***************************************************************************)
EXTENDS Integers, Sequences, FiniteSets, TLC

VARIABLES
    dash,         \* which of the three scripts is running
    df,           \* the loaded table: a sequence of rows
    date_range,   \* what st.date_input returned: <<start, end>> or <<start>>
    sel,          \* what the multiselects returned: field -> set of values
    fdf,          \* the filtered table (fdf in maintenance/shortage, f_df in speed)
    fpc,          \* position of the filter part of the script
    now,          \* the clock st.cache_data reads, in seconds
    sourceUp,     \* whether pd.read_csv(url) succeeds at the moment
    cache,        \* the entries st.cache_data holds for the loader (no arguments: one key)
    fetches,      \* how many times the body of the loader has run
    pc,           \* position of the script run; "idle" between runs
    clicked,      \* whether the run was started by a click on the reload button
    clickMark,    \* the value of fetches at the last click, -1 before any click
    loaded,       \* what the loader returned to the current run
    lastLoad,     \* whether that was a cache "hit" or a "miss"
    failed,       \* whether a fetch of the current run failed
    page,         \* the elements the current run has put on the page
    actFetches,   \* fetches since the user last acted (opened the page, changed a widget, clicked)
    view,         \* the section of a script that is being rendered
    subset,       \* what that section reads: the filtered table, reduced to the columns it uses
    shown,        \* what the section computed and put on the page
    raised,       \* the exception that ended the section, "" if none
    rpc           \* position of the section: "start", "done"

fvars == <<df, date_range, sel, fdf, fpc>>

lvars == <<now, sourceUp, cache, fetches, pc, clicked, clickMark, loaded, lastLoad,
           failed, page, actFetches>>

rvars == <<view, subset, shown, raised, rpc>>

vars == <<dash, df, date_range, sel, fdf, fpc, now, sourceUp, cache, fetches, pc,
          clicked, clickMark, loaded, lastLoad, failed, page, actFetches, view,
          subset, shown, raised, rpc>>

(***************************************************************************)
(* Bounds                                                                  *)
(***************************************************************************)
MaxRows == 2        \* rows of a loaded table
MaxDay == 2         \* dates are the days 0..MaxDay
MaxPicked == 2      \* values picked over all multiselects of one run
MaxTicks == 6       \* clock ticks of a life cycle
TickSeconds == 60   \* seconds per clock tick
MaxFetches == 3     \* fetches of a life cycle
MaxMissing == 1     \* columns absent from a loaded table
MaxOrders == 3      \* rows of the filtered table a section reads
MaxTrendRows == 2   \* rows of the filtered table the trend chart reads
MaxGroups == 11     \* groups of a grouping that is cut to its top 10
MaxDataDay == 9     \* the dates of a table whose default interval is computed: 0..MaxDataDay
WeekSpan == 3       \* the weekly trend's dates lie this many days around a 1 January
TrendSpan == 4      \* the trend's dates lie this many days around 1 January 2025

\* the program's N of every top-N list: head(10) / tail(10)
TopN == 10

Dashboards == {"maintenance", "shortage", "speed"}

\* a date cell that pd.to_datetime(..., errors="coerce") could not parse
NaT == -1

Days == 0..MaxDay
DateVals == Days \cup {NaT}

\* values of a categorical column
Values == {"A", "B"}

(***************************************************************************)
(* The categorical filters of each script, in the order the script applies *)
(* them.                                                                   *)
(***************************************************************************)
Fields(d) ==
    IF d = "maintenance" THEN <<"machine", "station", "technician", "job_type">>
    ELSE IF d = "shortage" THEN <<"MC", "shift", "status", "customer", "stop_status">>
    ELSE <<"machine", "shift">>

FieldSet(d) == {Fields(d)[i] : i \in 1..Len(Fields(d))}

\* rows of the table of dashboard d: a date and one value per categorical column
Rows(d) == [date : DateVals, cat : {[f \in FieldSet(d) |-> v] : v \in Values}]

RECURSIVE SeqsUpTo(_, _)
SeqsUpTo(S, n) ==
    IF n = 0 THEN {<<>>}
    ELSE LET shorter == SeqsUpTo(S, n - 1)
         IN  shorter \cup {Append(s, x) : s \in {t \in shorter : Len(t) = n - 1}, x \in S}

\* loaded tables that reach the filter stage: not empty, at least one parsed date
Tables(d) ==
    {t \in SeqsUpTo(Rows(d), MaxRows) :
        \E i \in 1..Len(t) : t[i].date # NaT}

(***************************************************************************)
(* pandas helpers                                                          *)
(***************************************************************************)
\* df[mask], the rows for which the mask holds, in table order, is SelectSeq
\* comparisons of a datetime column with a timestamp: NaT compares False
Ge(d, x) == d # NaT /\ d >= x
Le(d, x) == d # NaT /\ d <= x

\* (df[date] >= start) & (df[date] <= end); the first two are faulty variants
\* (undated rows pass; the ends are excluded) the properties must tell apart
DateMaskNaTPasses(row, s, e) == row.date = NaT \/ (Ge(row.date, s) /\ Le(row.date, e))
DateMaskExclusive(row, s, e) == row.date # NaT /\ row.date > s /\ row.date < e
DateMask(row, s, e) == Ge(row.date, s) /\ Le(row.date, e)

\* df[col].min() / .max(): NaT is skipped
MinDate(t) == CHOOSE d \in Days :
    /\ \E i \in 1..Len(t) : t[i].date = d
    /\ \A i \in 1..Len(t) : t[i].date # NaT => d <= t[i].date
MaxDate(t) == CHOOSE d \in Days :
    /\ \E i \in 1..Len(t) : t[i].date = d
    /\ \A i \in 1..Len(t) : t[i].date # NaT => d >= t[i].date

\* sorted(df[col].dropna().unique()): the options of a multiselect
Options(t, f) == {t[i].cat[f] : i \in 1..Len(t)}

\* if picked: fdf = fdf[fdf[col].isin(picked)]; the first two are faulty
\* variants (no guard; only the machine filter applied)
IsinNoGuard(t, f, picked) == LET keep(row) == row.cat[f] \in picked IN SelectSeq(t, keep)
IsinFirstField(t, f, picked) ==
    LET keep(row) == row.cat[f] \in picked
    IN  IF picked = {} \/ f \notin {"machine", "MC"} THEN t ELSE SelectSeq(t, keep)
IsinFilter(t, f, picked) ==
    LET keep(row) == row.cat[f] \in picked
    IN  IF picked = {} THEN t ELSE SelectSeq(t, keep)

\* the chain of categorical filters over the fields fs, applied left to right
RECURSIVE CatChain(_, _, _)
CatChain(t, fs, picks) ==
    IF fs = <<>> THEN t
    ELSE CatChain(IsinFilter(t, Head(fs), picks[Head(fs)]), Tail(fs), picks)

(***************************************************************************)
(* st.cache_data around the loader                                         *)
(***************************************************************************)
\* @st.cache_data(ttl=60) in maintenance, ttl=300 in shortage and speed
TTL(d) == IF d = "maintenance" THEN 60 ELSE 300

\* a loaded table in the life cycle: whether it is empty and which run of the
\* loader's body produced it; seq 0: nothing loaded yet
Unloaded == [empty |-> TRUE, seq |-> 0]

\* an entry is served while it is younger than the ttl (faulty variant: the
\* ttl is ignored)
CacheValidForever(d, c, t) == c # {}
CacheValid(d, c, t) == \E e \in c : t < e.at + TTL(d)

CachedTable(c) == (CHOOSE e \in c : TRUE).table

\* st.cache_data.clear() (faulty variant: nothing is dropped)
CacheClearKeeps(c) == c
CacheClear(c) == {}

\* where the script goes once the loader has returned
AfterLoad(d) == IF d = "maintenance" THEN "body" ELSE "empty_check"

(***************************************************************************)
(* The sidebar widgets                                                     *)
(***************************************************************************)
\* st.date_input with a two-element value returns a pair once both ends are
\* picked and a one-element tuple while only the first end is picked; lo..hi
\* are the days the picker offers
DateInput(lo, hi) ==
    {<<s, e>> : s \in lo..hi, e \in lo..hi} \cup {<<s>> : s \in lo..hi}

DatePicks(lo, hi) == {p \in DateInput(lo, hi) : Len(p) = 2 => p[1] <= p[2]}

\* the days each script's picker offers: speed passes min_value / max_value
PickerDays(d, t) ==
    IF d = "speed" THEN DatePicks(MinDate(t), MaxDate(t)) ELSE DatePicks(0, MaxDay)

RECURSIVE Picked(_, _)
Picked(picks, fs) ==
    IF fs = <<>> THEN 0 ELSE Cardinality(picks[Head(fs)]) + Picked(picks, Tail(fs))

\* what the multiselects of script d can return over table t
Multiselects(d, t) ==
    {p \in [FieldSet(d) -> SUBSET Values] :
        /\ \A f \in FieldSet(d) : p[f] \subseteq Options(t, f)
        /\ Picked(p, Fields(d)) <= MaxPicked}

NoPicks(d) == [f \in FieldSet(d) |-> {}]

(***************************************************************************)
(* The filter part of each script                                          *)
(***************************************************************************)
\* maintenance: fdf = df[(date >= start) & (date <= end)], then the chain
MaintenanceFiltered(t, dr, picks) ==
    LET keep(row) == DateMask(row, dr[1], dr[2])
    IN  CatChain(SelectSeq(t, keep), Fields("maintenance"), picks)

\* shortage: fdf = df.copy(); if len(date_range) == 2: date mask; then the chain
\* (faulty variant: the date mask is never applied)
ShortageFilteredUndated(t, dr, picks) == CatChain(t, Fields("shortage"), picks)
ShortageFiltered(t, dr, picks) ==
    LET keep(row) == DateMask(row, dr[1], dr[2])
        dated == IF Len(dr) = 2 THEN SelectSeq(t, keep) ELSE t
    IN  CatChain(dated, Fields("shortage"), picks)

\* speed: if isinstance(date_range, (list, tuple)) and len(date_range) == 2:
\* date mask, else f_df = df.copy(); then the chain
SpeedFiltered(t, dr, picks) ==
    LET keep(row) == DateMask(row, dr[1], dr[2])
        dated == IF Len(dr) = 2 THEN SelectSeq(t, keep) ELSE t
    IN  CatChain(dated, Fields("speed"), picks)

(***************************************************************************)
(* SpecFilter: the sidebar and the filter stage of one script run          *)
(***************************************************************************)
InitFilter ==
    /\ dash \in Dashboards
    /\ df \in Tables(dash)
    /\ date_range = <<>>
    /\ sel = NoPicks(dash)
    /\ fdf = <<>>
    /\ fpc = "sidebar"
    /\ now = 0
    /\ sourceUp = TRUE
    /\ cache = {}
    /\ fetches = 0
    /\ pc = "body"
    /\ clicked = FALSE
    /\ clickMark = -1
    /\ loaded = Unloaded
    /\ lastLoad = "none"
    /\ failed = FALSE
    /\ page = {}
    /\ actFetches = 0
    /\ view = "none"
    /\ subset = <<>>
    /\ shown = <<>>
    /\ raised = ""
    /\ rpc = "off"

\* the widgets are evaluated: each returns what the user has currently chosen
Sidebar ==
    /\ fpc = "sidebar"
    /\ date_range' \in PickerDays(dash, df)
    /\ sel' \in Multiselects(dash, df)
    /\ fpc' = "filter"
    /\ UNCHANGED <<dash, df, fdf>>
    /\ UNCHANGED lvars
    /\ UNCHANGED rvars

\* maintenance line 54 unpacks the picker's value into start_date, end_date
MaintenanceUnpackFails ==
    /\ fpc = "filter"
    /\ dash = "maintenance"
    /\ Len(date_range) # 2
    /\ fpc' = "error"
    /\ UNCHANGED <<dash, df, date_range, sel, fdf>>
    /\ UNCHANGED lvars
    /\ UNCHANGED rvars

MaintenanceApply ==
    /\ fpc = "filter"
    /\ dash = "maintenance"
    /\ Len(date_range) = 2
    /\ fdf' = MaintenanceFiltered(df, date_range, sel)
    /\ fpc' = "done"
    /\ UNCHANGED <<dash, df, date_range, sel>>
    /\ UNCHANGED lvars
    /\ UNCHANGED rvars

ShortageApply ==
    /\ fpc = "filter"
    /\ dash = "shortage"
    /\ fdf' = ShortageFiltered(df, date_range, sel)
    /\ fpc' = "done"
    /\ UNCHANGED <<dash, df, date_range, sel>>
    /\ UNCHANGED lvars
    /\ UNCHANGED rvars

SpeedApply ==
    /\ fpc = "filter"
    /\ dash = "speed"
    /\ fdf' = SpeedFiltered(df, date_range, sel)
    /\ fpc' = "done"
    /\ UNCHANGED <<dash, df, date_range, sel>>
    /\ UNCHANGED lvars
    /\ UNCHANGED rvars

\* a widget interaction reruns the script from the top on the same table
Rerun ==
    /\ fpc \in {"done", "error"}
    /\ date_range' = <<>>
    /\ sel' = NoPicks(dash)
    /\ fdf' = <<>>
    /\ fpc' = "sidebar"
    /\ UNCHANGED <<dash, df>>
    /\ UNCHANGED lvars
    /\ UNCHANGED rvars

NextFilter ==
    \/ Sidebar
    \/ MaintenanceUnpackFails
    \/ MaintenanceApply
    \/ ShortageApply
    \/ SpeedApply
    \/ Rerun

SpecFilter == InitFilter /\ [][NextFilter]_vars

(***************************************************************************)
(* Spec: the life cycle of script runs                                     *)
(***************************************************************************)
Init ==
    /\ dash \in Dashboards
    /\ df = <<>>
    /\ date_range = <<>>
    /\ sel = <<>>
    /\ fdf = <<>>
    /\ fpc = "off"
    /\ now = 0
    /\ sourceUp \in BOOLEAN
    /\ cache = {}
    /\ fetches = 0
    /\ pc = "load"
    /\ clicked = FALSE
    /\ clickMark = -1
    /\ loaded = Unloaded
    /\ lastLoad = "none"
    /\ failed = FALSE
    /\ page = {}
    /\ actFetches = 0
    /\ view = "none"
    /\ subset = <<>>
    /\ shown = <<>>
    /\ raised = ""
    /\ rpc = "off"

\* df = load_data() served from the cache
LoadHit ==
    /\ pc = "load"
    /\ CacheValid(dash, cache, now)
    /\ loaded' = CachedTable(cache)
    /\ lastLoad' = "hit"
    /\ pc' = AfterLoad(dash)
    /\ UNCHANGED <<dash, now, sourceUp, cache, fetches, clicked, clickMark, failed, page>>
    /\ UNCHANGED actFetches
    /\ UNCHANGED fvars
    /\ UNCHANGED rvars

\* the loader's body runs and pd.read_csv succeeds: the result is cached
LoadFetch ==
    /\ pc = "load"
    /\ ~CacheValid(dash, cache, now)
    /\ fetches < MaxFetches
    /\ sourceUp
    /\ fetches' = fetches + 1
    /\ loaded' = [empty |-> FALSE, seq |-> fetches + 1]
    /\ cache' = {[table |-> loaded', at |-> now]}
    /\ lastLoad' = "miss"
    /\ pc' = AfterLoad(dash)
    /\ UNCHANGED <<dash, now, sourceUp, clicked, clickMark, failed, page>>
    /\ actFetches' = actFetches + 1
    /\ UNCHANGED fvars
    /\ UNCHANGED rvars

\* shortage and speed: pd.read_csv raises inside try, the except branch
\* returns pd.DataFrame(), which st.cache_data stores like any return value
\* (faulty variant: the table of the except branch is not stored)
LoadFetchCaughtNotStored ==
    /\ pc = "load"
    /\ dash \in {"shortage", "speed"}
    /\ ~CacheValid(dash, cache, now)
    /\ fetches < MaxFetches
    /\ ~sourceUp
    /\ fetches' = fetches + 1
    /\ loaded' = [empty |-> TRUE, seq |-> fetches + 1]
    /\ cache' = {}
    /\ lastLoad' = "miss"
    /\ failed' = TRUE
    /\ page' = IF dash = "shortage" THEN page \cup {"error"} ELSE page
    /\ pc' = "empty_check"
    /\ UNCHANGED <<dash, now, sourceUp, clicked, clickMark>>
    /\ actFetches' = actFetches + 1
    /\ UNCHANGED fvars
    /\ UNCHANGED rvars
LoadFetchCaught ==
    /\ pc = "load"
    /\ dash \in {"shortage", "speed"}
    /\ ~CacheValid(dash, cache, now)
    /\ fetches < MaxFetches
    /\ ~sourceUp
    /\ fetches' = fetches + 1
    /\ loaded' = [empty |-> TRUE, seq |-> fetches + 1]
    /\ cache' = {[table |-> loaded', at |-> now]}
    /\ lastLoad' = "miss"
    /\ failed' = TRUE
    /\ page' = IF dash = "shortage" THEN page \cup {"error"} ELSE page
    /\ pc' = "empty_check"
    /\ UNCHANGED <<dash, now, sourceUp, clicked, clickMark>>
    /\ actFetches' = actFetches + 1
    /\ UNCHANGED fvars
    /\ UNCHANGED rvars

\* maintenance: load_data has no try; the exception of pd.read_csv leaves the
\* loader and the script, nothing is cached
LoadFetchRaises ==
    /\ pc = "load"
    /\ dash = "maintenance"
    /\ ~CacheValid(dash, cache, now)
    /\ fetches < MaxFetches
    /\ ~sourceUp
    /\ fetches' = fetches + 1
    /\ loaded' = Unloaded
    /\ cache' = {}
    /\ lastLoad' = "miss"
    /\ failed' = TRUE
    /\ page' = page \cup {"exception"}
    /\ pc' = "idle"
    /\ UNCHANGED <<dash, now, sourceUp, clicked, clickMark>>
    /\ actFetches' = actFetches + 1
    /\ UNCHANGED fvars
    /\ UNCHANGED rvars

\* if df.empty: st.warning(...); st.stop()
EmptyStop ==
    /\ pc = "empty_check"
    /\ loaded.empty
    /\ page' = page \cup {"warning"}
    /\ pc' = "idle"
    /\ UNCHANGED <<dash, now, sourceUp, cache, fetches, clicked, clickMark, loaded,
                   lastLoad, failed>>
    /\ UNCHANGED actFetches
    /\ UNCHANGED fvars
    /\ UNCHANGED rvars

EmptyPass ==
    /\ pc = "empty_check"
    /\ ~loaded.empty
    /\ pc' = "button"
    /\ UNCHANGED <<dash, now, sourceUp, cache, fetches, clicked, clickMark, loaded,
                   lastLoad, failed, page>>
    /\ UNCHANGED actFetches
    /\ UNCHANGED fvars
    /\ UNCHANGED rvars

\* if st.button(...): the button is put on the page and returns False
ButtonShown ==
    /\ pc = "button"
    /\ ~clicked
    /\ page' = page \cup {"button"}
    /\ pc' = "body"
    /\ UNCHANGED <<dash, now, sourceUp, cache, fetches, clicked, clickMark, loaded,
                   lastLoad, failed>>
    /\ UNCHANGED actFetches
    /\ UNCHANGED fvars
    /\ UNCHANGED rvars

\* if st.button(...): it returns True in the run its click started:
\* st.cache_data.clear(); st.rerun() starts the script again from the top
ButtonClicked ==
    /\ pc = "button"
    /\ clicked
    /\ cache' = CacheClear(cache)
    /\ clicked' = FALSE
    /\ loaded' = Unloaded
    /\ lastLoad' = "none"
    /\ failed' = FALSE
    /\ page' = {}
    /\ pc' = "load"
    /\ UNCHANGED <<dash, now, sourceUp, fetches, clickMark>>
    /\ UNCHANGED actFetches
    /\ UNCHANGED fvars
    /\ UNCHANGED rvars

\* the rest of the script: widgets, filters, metrics, charts, tables
Body ==
    /\ pc = "body"
    /\ page' = page \cup {"body"}
    /\ pc' = "idle"
    /\ UNCHANGED <<dash, now, sourceUp, cache, fetches, clicked, clickMark, loaded,
                   lastLoad, failed>>
    /\ UNCHANGED actFetches
    /\ UNCHANGED fvars
    /\ UNCHANGED rvars

\* maintenance line 54 while the date picker holds a single date
BodyUnpackFails ==
    /\ pc = "body"
    /\ dash = "maintenance"
    /\ page' = page \cup {"exception"}
    /\ pc' = "idle"
    /\ UNCHANGED <<dash, now, sourceUp, cache, fetches, clicked, clickMark, loaded,
                   lastLoad, failed>>
    /\ UNCHANGED actFetches
    /\ UNCHANGED fvars
    /\ UNCHANGED rvars

\* the user changes a widget or reloads the page: the script runs again
Interact ==
    /\ pc = "idle"
    /\ pc' = "load"
    /\ clicked' = FALSE
    /\ loaded' = Unloaded
    /\ lastLoad' = "none"
    /\ failed' = FALSE
    /\ page' = {}
    /\ UNCHANGED <<dash, now, sourceUp, cache, fetches, clickMark>>
    /\ actFetches' = 0
    /\ UNCHANGED fvars
    /\ UNCHANGED rvars

\* the user clicks the reload button, which the last run must have shown
ClickReload ==
    /\ pc = "idle"
    /\ "button" \in page
    /\ pc' = "load"
    /\ clicked' = TRUE
    /\ clickMark' = fetches
    /\ loaded' = Unloaded
    /\ lastLoad' = "none"
    /\ failed' = FALSE
    /\ page' = {}
    /\ UNCHANGED <<dash, now, sourceUp, cache, fetches>>
    /\ actFetches' = 0
    /\ UNCHANGED fvars
    /\ UNCHANGED rvars

Tick ==
    /\ now + TickSeconds <= MaxTicks * TickSeconds
    /\ now' = now + TickSeconds
    /\ UNCHANGED <<dash, sourceUp, cache, fetches, pc, clicked, clickMark, loaded,
                   lastLoad, failed, page>>
    /\ UNCHANGED actFetches
    /\ UNCHANGED fvars
    /\ UNCHANGED rvars

\* the sheet becomes unreachable, or reachable again
SourceChanges ==
    /\ sourceUp' = ~sourceUp
    /\ UNCHANGED <<dash, now, cache, fetches, pc, clicked, clickMark, loaded,
                   lastLoad, failed, page>>
    /\ UNCHANGED actFetches
    /\ UNCHANGED fvars
    /\ UNCHANGED rvars

Next ==
    \/ LoadHit
    \/ LoadFetch
    \/ LoadFetchCaught
    \/ LoadFetchRaises
    \/ EmptyStop
    \/ EmptyPass
    \/ ButtonShown
    \/ ButtonClicked
    \/ Body
    \/ BodyUnpackFails
    \/ Interact
    \/ ClickReload
    \/ Tick
    \/ SourceChanges

Spec == Init /\ [][Next]_vars

(***************************************************************************)
(* SpecRender: one section of a script (a metric, a chart, a table) is     *)
(* computed from the filtered table                                        *)
(***************************************************************************)
\* a column reference of a script, in the order the script reaches it:
\*   "none"           df[col] with no test: KeyError when the column is absent
\*   "in_columns"     inside `if col in df.columns`: the widget is skipped
\*   "defined_above"  reads a name that only the guarded branch above binds
Ref(col, guard, widget) == [col |-> col, guard |-> guard, widget |-> widget]

\* maintenance: the loader's coercion (36-42) and the sidebar (59-77)
MaintenanceRefs ==
    << Ref("downtime", "none", "coercion"),
       Ref("machine", "none", "machine_filter"),
       Ref("station", "none", "station_filter"),
       Ref("technician", "none", "technician_filter"),
       Ref("job_type", "none", "job_type_filter") >>

\* shortage: the sidebar (99-104), the header metrics (120-123), the pie of
\* the stop status (224), the repair tab (323)
ShortageRefs ==
    << Ref("MC", "none", "mc_filter"),
       Ref("shift", "none", "shift_filter"),
       Ref("status", "none", "status_filter"),
       Ref("customer", "none", "customer_filter"),
       Ref("stop_status", "in_columns", "stop_status_filter"),
       Ref("missing_meters", "none", "missing_meters_kpi"),
       Ref("stop_status", "in_columns", "stop_pie"),
       Ref("repair_summary", "in_columns", "repair_tab") >>

\* speed: the loader's coercion loops (63-74), the sidebar (113-114), the
\* KPIs (129-131), the status pie (223) and the list beside it (233)
SpeedRefs ==
    << Ref("diff", "in_columns", "coercion"),
       Ref("speed_vs_plan", "in_columns", "coercion"),
       Ref("machine", "none", "machine_filter"),
       Ref("shift", "none", "shift_filter"),
       Ref("checked_2", "none", "kpi"),
       Ref("diff", "none", "kpi"),
       Ref("speed_vs_plan", "in_columns", "status_pie"),
       Ref("speed_vs_plan", "defined_above", "status_list") >>

Refs(d) ==
    CASE d = "maintenance" -> MaintenanceRefs
      [] d = "shortage" -> ShortageRefs
      [] d = "speed" -> SpeedRefs

Columns(d) == {Refs(d)[i].col : i \in 1..Len(Refs(d))}

\* the script runs over its references until one raises
RECURSIVE RunRefs(_, _, _, _)
RunRefs(refs, missing, empty, skipped) ==
    IF refs = <<>> THEN [raised |-> "", skipped |-> skipped]
    ELSE LET r == Head(refs)
         IN  IF r.col \notin missing
             THEN RunRefs(Tail(refs), missing, empty, skipped)
             ELSE CASE r.guard = "none" ->
                         [raised |-> "KeyError", skipped |-> skipped]
                    [] r.guard = "in_columns" ->
                         RunRefs(Tail(refs), missing, empty, skipped \cup {r.widget})
                    [] r.guard = "defined_above" ->
                         IF empty
                         THEN RunRefs(Tail(refs), missing, empty, skipped \cup {r.widget})
                         ELSE [raised |-> "NameError", skipped |-> skipped]

(***************************************************************************)
(* Arithmetic of the sections                                              *)
(***************************************************************************)
Abs(x) == IF x < 0 THEN 0 - x ELSE x

RECURSIVE SumSeq(_)
SumSeq(s) == IF s = <<>> THEN 0 ELSE Head(s) + SumSeq(Tail(s))

\* round(n / d) to the nearest integer, halves to the even neighbour, as
\* Python's round() and numpy's round do; n >= 0, d > 0
RoundHalfEven(n, d) ==
    LET q == n \div d
        r == n % d
    IN  IF 2 * r < d THEN q
        ELSE IF 2 * r > d THEN q + 1
        ELSE IF q % 2 = 0 THEN q ELSE q + 1

\* the values of a sequence of integers in ascending order
RECURSIVE InsertAsc(_, _)
InsertAsc(x, s) ==
    IF s = <<>> THEN <<x>>
    ELSE IF x < Head(s) THEN <<x>> \o s ELSE <<Head(s)>> \o InsertAsc(x, Tail(s))

RECURSIVE SortAsc(_)
SortAsc(s) == IF s = <<>> THEN <<>> ELSE InsertAsc(Head(s), SortAsc(Tail(s)))

\* .iloc[::-1]
Reverse(s) == [i \in 1..Len(s) |-> s[Len(s) + 1 - i]]

\* .head(n) and .tail(n)
LastN(s, n) == SubSeq(s, IF Len(s) < n THEN 1 ELSE Len(s) - n + 1, Len(s))
FirstN(s, n) == SubSeq(s, 1, IF Len(s) < n THEN Len(s) ELSE n)

(***************************************************************************)
(* The sections that divide or index: speed's loss summary, shortage's     *)
(* shortage rate, maintenance's top station                                *)
(***************************************************************************)
\* speed rows as the loss summary reads them: the stop kind and "Diff เวลา"
\* in tenths of a minute
DiffVals == {0 - 14, 0 - 4, 6}
SpeedRows == [stop : {"nonstop", "stop"}, diff : DiffVals]

\* speed 240-258: ns_loss_all, total_loss_exec, top_10_exec and the share of
\* the ten largest losses; the f-string divides by total_loss_exec
LossSummary(rows) ==
    LET isLoss(r) == r.stop = "nonstop" /\ r.diff < 0
        ns_loss_all == SelectSeq(rows, isLoss)
        diffs == [i \in 1..Len(ns_loss_all) |-> ns_loss_all[i].diff]
        total_loss_exec == RoundHalfEven(Abs(SumSeq(diffs)), 10)
        top_10_exec == FirstN(SortAsc(diffs), TopN)
        total_lost_top10_exec == RoundHalfEven(Abs(SumSeq(top_10_exec)), 10)
    IN  IF ns_loss_all = <<>>
        THEN [raised |-> "", shown |-> [late |-> 0]]
        ELSE IF total_loss_exec = 0
        THEN [raised |-> "ZeroDivisionError", shown |-> [late |-> Len(ns_loss_all)]]
        ELSE [raised |-> "",
              shown |-> [late |-> Len(ns_loss_all),
                         total |-> total_loss_exec,
                         top10 |-> total_lost_top10_exec,
                         share |-> RoundHalfEven(total_lost_top10_exec * 100,
                                                 total_loss_exec)]]

\* shortage rows as the header and the machine comparison read them
Machines == {"M1", "M2"}
Statuses == {"OK", "SHORT", "OVER"}
Orders == [mc : Machines, status : Statuses]

IsShort(r) == r.status = "SHORT"

\* shortage 119-120, 136: order_total, short_qty and the shortage rate, shown
\* with one decimal (here in tenths of a percent)
ShortPct(rows) ==
    LET order_total == Len(rows)
        short_qty == Len(SelectSeq(rows, IsShort))
    IN  [order_total |-> order_total,
         short_qty |-> short_qty,
         short_pct |-> IF order_total > 0
                       THEN RoundHalfEven(short_qty * 1000, order_total) ELSE 0]

\* maintenance rows as the station ranking reads them
Stations == {"S1", "S2"}
Downtimes == {0, 1, 2}
Stops == [station : Stations, downtime : Downtimes]

SumBy(rows, st) ==
    LET at(r) == r.station = st
        part == SelectSeq(rows, at)
    IN  SumSeq([i \in 1..Len(part) |-> part[i].downtime])

StationsOf(rows) == {rows[i].station : i \in 1..Len(rows)}

\* maintenance 118-129: the stations that sort_values(ascending=False) may
\* put first (a tie leaves the order to the sort), "-" for an empty table
TopStations(rows) ==
    IF StationsOf(rows) = {} THEN {"-"}
    ELSE {st \in StationsOf(rows) :
            \A other \in StationsOf(rows) : SumBy(rows, other) <= SumBy(rows, st)}

(***************************************************************************)
(* Numeric columns                                                         *)
(***************************************************************************)
\* a cell of a numeric column as the sheet delivers it: a number, or text
\* such as "cancelled"
Cells == {[kind |-> "num", val |-> v] : v \in {1, 2}} \cup {[kind |-> "text", val |-> 0]}

NaN == [nan |-> TRUE, val |-> 0]

\* pd.to_numeric(x, errors="coerce")
ToNumeric(c) == IF c.kind = "num" THEN [nan |-> FALSE, val |-> c.val] ELSE NaN

\* .fillna(0)
FillNa(x) == IF x.nan THEN [nan |-> FALSE, val |-> 0] ELSE x

\* Series.sum() skips NaN
RECURSIVE SumSkipNa(_)
SumSkipNa(col) ==
    IF col = <<>> THEN 0
    ELSE (IF Head(col).nan THEN 0 ELSE Head(col).val) + SumSkipNa(Tail(col))

\* the column after the script's coercion: maintenance (36-42) and speed
\* (63-67) coerce and fill in the loader, shortage (121-123, 148) coerces
\* where it sums; no row is removed
\* (faulty variant: the rows that do not parse are dropped)
CoercedDropsText(d, cells) ==
    LET isNum(c) == c.kind = "num"
        kept == SelectSeq(cells, isNum)
    IN  [i \in 1..Len(kept) |-> ToNumeric(kept[i])]
Coerced(d, cells) ==
    IF d \in {"maintenance", "speed"}
    THEN [i \in 1..Len(cells) |-> FillNa(ToNumeric(cells[i]))]
    ELSE [i \in 1..Len(cells) |-> ToNumeric(cells[i])]

(***************************************************************************)
(* Percentages of grouped counts                                           *)
(***************************************************************************)
\* the sum of the "%" column over a set of chart entries, in tenths
RECURSIVE SumPct(_)
SumPct(S) ==
    IF S = {} THEN 0
    ELSE LET x == CHOOSE y \in S : TRUE IN x.pct + SumPct(S \ {x})

\* (x / total * 100).round(1), in tenths of a percent
Pct(x, total) == RoundHalfEven(x * 1000, total)

\* shortage 159-163: groupby(['MC', status]).size(), the machine's total by
\* transform('sum'), and the percentage of each status inside its machine.
\* speed 295-297 is the same computation over machine and order length.
\* Each entry is one segment of a stacked bar: bar is the axis category the
\* chart draws it in, bucket the group its total was taken over.
\* (faulty variant: the percentage is taken over all rows of the table)
MachinePctOfAll(rows) ==
    LET size(m, st) == Len(SelectSeq(rows, LAMBDA r : r.mc = m /\ r.status = st))
    IN  {[bar |-> m, bucket |-> m, sub |-> st, count |-> size(m, st),
          pct |-> Pct(size(m, st), Len(rows))] :
            m \in {rows[i].mc : i \in 1..Len(rows)},
            st \in {rows[i].status : i \in 1..Len(rows)}}
MachinePct(rows) ==
    LET size(m, st) == Len(SelectSeq(rows, LAMBDA r : r.mc = m /\ r.status = st))
        groups == {<<rows[i].mc, rows[i].status>> : i \in 1..Len(rows)}
        mc_totals(m) == Len(SelectSeq(rows, LAMBDA r : r.mc = m))
    IN  {[bar |-> g[1], bucket |-> g[1], sub |-> g[2], count |-> size(g[1], g[2]),
          pct |-> Pct(size(g[1], g[2]), mc_totals(g[1]))] : g \in groups}

(***************************************************************************)
(* The calendar of the trend charts. Day 0 is Sunday 22 December 2024, so   *)
(* 1 January 2025 is day 10; the days of the model lie in 2018..2027.      *)
(***************************************************************************)
\* Series.dt.weekday: Monday is 0
Weekday(n) == (n + 6) % 7

\* the Gregorian years the calendar knows
Years == 2018..2027
IsLeap(y) == y % 4 = 0 /\ (y % 100 # 0 \/ y % 400 = 0)
YearLen(y) == IF IsLeap(y) THEN 366 ELSE 365

\* the day number of 1 January of year y
RECURSIVE YearStartOf(_)
YearStartOf(y) ==
    IF y = 2025 THEN 10
    ELSE IF y > 2025 THEN YearStartOf(y - 1) + YearLen(y - 1)
    ELSE YearStartOf(y + 1) - YearLen(y)

\* the year and the day of the year, counted from 0
Year(n) == CHOOSE y \in Years : YearStartOf(y) <= n /\ n < YearStartOf(y) + YearLen(y)
YDay(n) == n - YearStartOf(Year(n))

\* the month and the day of the month, <<m, d>>, of day n
MonthLens(y) ==
    <<31, IF IsLeap(y) THEN 29 ELSE 28, 31, 30, 31, 30, 31, 31, 30, 31, 30, 31>>

RECURSIVE MonthOf(_, _, _)
MonthOf(k, lens, m) ==
    IF k < Head(lens) THEN <<m, k + 1>> ELSE MonthOf(k - Head(lens), Tail(lens), m + 1)

MonthDay(n) == MonthOf(YDay(n), MonthLens(Year(n)), 1)

\* strftime("%U"): the week of the year with Sunday as the first day; the
\* days before the first Sunday of the year are week 0
WeekU(n) == (YDay(n) + 7 - ((Weekday(n) + 1) % 7)) \div 7

\* first day of the month and of the year of day n
MonthStart(n) == n - (MonthDay(n)[2] - 1)
YearStart(n) == YearStartOf(Year(n))

Periods == {"daily", "weekly", "monthly", "yearly"}

\* shortage 238-245: the column ช่วง_dt, the key the totals are taken over
Bucket(period, n) ==
    CASE period = "daily" -> n
      [] period = "weekly" -> n - ((Weekday(n) + 1) % 7)
      [] period = "monthly" -> MonthStart(n)
      [] period = "yearly" -> YearStart(n)

\* shortage 238-245: the column ช่วง, the category of the x axis; the daily,
\* monthly and yearly labels are formatted from ช่วง_dt, the weekly label
\* from the date of the row
Label(period, n) ==
    CASE period = "daily" -> <<"day", Bucket(period, n)>>
      [] period = "weekly" -> <<"Week", WeekU(n) + 1>>
      [] period = "monthly" -> <<"month", Bucket(period, n)>>
      [] period = "yearly" -> <<"year", Year(n)>>

TrendDays == (10 - TrendSpan)..(10 + TrendSpan)
TrendRows == [date : TrendDays, status : Statuses]

\* shortage 246-248: sum_trend, total_in_period and "%"
TrendPct(period, rows) ==
    LET key(r) == <<Bucket(period, r.date), Label(period, r.date), r.status>>
        groups == {key(rows[i]) : i \in 1..Len(rows)}
        size(g) == Len(SelectSeq(rows, LAMBDA r : key(r) = g))
        total_in_period(dt) ==
            Len(SelectSeq(rows, LAMBDA r : Bucket(period, r.date) = dt))
    IN  {[bar |-> g[2], bucket |-> g[1], sub |-> g[3], count |-> size(g),
          pct |-> Pct(size(g), total_in_period(g[1]))] : g \in groups}

(***************************************************************************)
(* Top-10 lists                                                            *)
(***************************************************************************)
\* a grouping after groupby: one record per key, in the order of the keys
\* (groupby sorts them); key is the rank of the group's name among the names,
\* key 0 stands for the name "" that speed's loader gives to a blank cell
Group(k, x) == [key |-> k, value |-> x]

\* sort_values(by=value): pandas sorts with kind="quicksort", which is not a
\* stable sort, so every order that is ascending in the value is a possible
\* outcome; S is the set of the groups
RECURSIVE AscOrders(_)
AscOrders(S) ==
    IF S = {} THEN {<<>>}
    ELSE UNION {{<<x>> \o rest : rest \in AscOrders(S \ {x})} :
                    x \in {y \in S : \A z \in S : y.value <= z.value}}

\* sort_values(by=value, ascending=False)
DescOrders(S) == {Reverse(o) : o \in AscOrders(S)}

Elements(groups) == {groups[i] : i \in 1..Len(groups)}

\* maintenance 139-155: sort descending, head(10), then iloc[::-1] for the
\* horizontal bar chart
MaintenanceTop10(groups) ==
    {Reverse(FirstN(o, TopN)) : o \in DescOrders(Elements(groups))}

\* shortage 203: sort_values().tail(10)
\* (faulty variant: head(10) of the ascending order)
ShortageTop10Head(groups) == {FirstN(o, TopN) : o \in AscOrders(Elements(groups))}
ShortageTop10(groups) == {LastN(o, TopN) : o \in AscOrders(Elements(groups))}

\* speed 273: the group named "" is left out, then sort ascending, tail(10)
Named(groups) == SelectSeq(groups, LAMBDA g : g.key # 0)
SpeedTop10(groups) == {LastN(o, TopN) : o \in AscOrders(Elements(Named(groups)))}

Top10(d, groups) ==
    CASE d = "maintenance" -> MaintenanceTop10(groups)
      [] d = "shortage" -> ShortageTop10(groups)
      [] d = "speed" -> SpeedTop10(groups)

\* groupings of n groups whose values ascend or descend with the key, with
\* the value of group j replaced by that of group k: at most one tie
Ranked(n, dir, j, k) ==
    LET base == [i \in 1..n |-> IF dir = "up" THEN i ELSE n + 1 - i]
    IN  [i \in 1..n |-> Group(i, IF i = j THEN base[k] ELSE base[i])]

Groupings ==
    {<<>>} \cup
    UNION {{Ranked(n, dir, j, k) : dir \in {"up", "down"}, j \in 1..n, k \in 1..n} :
             n \in 1..MaxGroups}

\* speed: the grouping may hold the group of the blank names as well
WithBlank == {<<Group(0, MaxGroups + 1)>> \o g : g \in Groupings}

\* shortage rows as the top-10 of the causes reads them; detail is the rank
\* of the cause's text among the causes
Details == {1, 2}
CauseRows == [detail : Details, status : Statuses]

\* shortage 203: fdf[status == "ขาดจำนวน"].groupby("Detail").size()
CauseGroups(rows) ==
    LET present(k) == \E i \in 1..Len(rows) : IsShort(rows[i]) /\ rows[i].detail = k
        size(k) == Len(SelectSeq(rows, LAMBDA r : IsShort(r) /\ r.detail = k))
        keys == SelectSeq(<<1, 2>>, present)
    IN  [i \in 1..Len(keys) |-> Group(keys[i], size(keys[i]))]

\* shortage 203-205: top10 and its "%" column, which divides by order_total
TopCauses(rows) ==
    LET order_total == Len(rows)
    IN  {[i \in 1..Len(t) |->
            [key |-> t[i].key, value |-> t[i].value,
             pct |-> Pct(t[i].value, order_total)]] :
          t \in ShortageTop10(CauseGroups(rows))}

(***************************************************************************)
(* The default of the date picker                                          *)
(***************************************************************************)
\* the earliest and the latest date of a loaded table
DateSpans == {x \in [min : 0..MaxDataDay, max : 0..MaxDataDay] : x.min <= x.max}

\* shortage 95-98: default_start = max_date - pd.Timedelta(days=7)
ShortageDefault(lo, hi) == <<hi - 7, hi>>

\* speed 92-98: default_start = absolute_max_date - pd.Timedelta(days=6),
\* raised to absolute_min_date when it lies before it
SpeedDefault(lo, hi) == <<IF hi - 6 < lo THEN lo ELSE hi - 6, hi>>

(***************************************************************************)
(* The detail tables                                                       *)
(***************************************************************************)
\* filtered rows as the detail table reads them: the date and the running
\* number of the sheet's column "ลำดับที่"
DetailRows == [date : Days, seq : {1, 2}]

\* the rows of t in the order o of their positions
Permuted(t, o) == [i \in 1..Len(o) |-> t[o[i].key]]

\* maintenance 273-291: st.dataframe(fdf[[...]]), the rows as they are
MaintenanceDetail(t) == {t}

\* shortage 316: sort_values("ลำดับที่", ascending=True)
ShortageDetail(t) ==
    {Permuted(t, o) : o \in AscOrders({Group(i, t[i].seq) : i \in 1..Len(t)})}

\* speed 328: sort_values("วันที่", ascending=False)
SpeedDetail(t) ==
    {Permuted(t, o) : o \in DescOrders({Group(i, t[i].date) : i \in 1..Len(t)})}

Detail(d, t) ==
    CASE d = "maintenance" -> MaintenanceDetail(t)
      [] d = "shortage" -> ShortageDetail(t)
      [] d = "speed" -> SpeedDetail(t)

(***************************************************************************)
(* The weekly buckets and their labels in the three trend charts           *)
(***************************************************************************)
\* dates.dt.isocalendar().week: the week of the date's Thursday
IsoWeek(n) == (YDay(n - Weekday(n) + 3) \div 7) + 1

\* maintenance 199, 204: resample("W-MON") puts a date in the bin that ends
\* on the Monday on or after it and names the bin by that Monday
MaintenanceWeek(n) == n + ((7 - Weekday(n)) % 7)

\* maintenance 216-221: "W" + ISO week + "-" + calendar year of the bin's Monday
MaintenanceWeekLabel(n) ==
    <<"W", IsoWeek(MaintenanceWeek(n)), Year(MaintenanceWeek(n))>>

\* speed 185: Week_Start, the Sunday on or before the date
SpeedWeek(n) == n - ((Weekday(n) + 1) % 7)

\* speed 187: Week_Start.dt.strftime('%d/%m (Sun)')
SpeedWeekLabel(n) == <<MonthDay(SpeedWeek(n))[2], MonthDay(SpeedWeek(n))[1]>>

WeekOf(d, n) ==
    CASE d = "maintenance" -> MaintenanceWeek(n)
      [] d = "shortage" -> Bucket("weekly", n)
      [] d = "speed" -> SpeedWeek(n)

WeekLabelOf(d, n) ==
    CASE d = "maintenance" -> MaintenanceWeekLabel(n)
      [] d = "shortage" -> Label("weekly", n)
      [] d = "speed" -> SpeedWeekLabel(n)

\* the dates of the rows of a weekly trend: days around the 1 January of
\* several years
WeekDates ==
    UNION {{YearStartOf(y) + k : k \in (0 - WeekSpan)..WeekSpan} :
             y \in {2020, 2024, 2025, 2026}}

\* the bucket and the label the weekly trend gives to each row
WeekLabels(d, dates) ==
    {[bucket |-> WeekOf(d, dates[i]), label |-> WeekLabelOf(d, dates[i])] :
        i \in 1..Len(dates)}

(***************************************************************************)
(* Speed: the OVERALL SPEED time of the KPI cards and of the trend chart   *)
(***************************************************************************)
\* speed rows as the KPI cards and the trend read them: the stop kind
\* ("blank" is the "" the loader gives to an empty cell), "Diff เวลา" and
\* "เวลาหยุดข้อมูลเครื่อง" in tenths of a minute, the machine and the date
StopKinds == {"nonstop", "stop", "blank"}
OverallRows ==
    [stop : StopKinds, diff : {0 - 4, 6}, halt : {0, 7}, machine : Machines,
     date : {7, 14}]

\* speed 131-137: raw_ns_min + raw_so_min, before overall_time rounds it
OverallKpi(rows) ==
    LET ns == SelectSeq(rows, LAMBDA r : r.stop = "nonstop")
        so == SelectSeq(rows, LAMBDA r : r.stop = "stop")
        raw_ns_min == SumSeq([i \in 1..Len(ns) |-> ns[i].diff])
        raw_so_min == SumSeq([i \in 1..Len(so) |-> so[i].diff])
                        + SumSeq([i \in 1..Len(so) |-> so[i].halt])
    IN  raw_ns_min + raw_so_min

\* speed 180: Val is Diff for a non-stop row and Diff + machine stop otherwise
Val(r) == IF r.stop = "nonstop" THEN r.diff ELSE r.diff + r.halt

\* speed 182-188: res_trend, Val summed per week and machine
OverallTrend(rows) ==
    LET groups == {<<SpeedWeek(rows[i].date), rows[i].machine>> : i \in 1..Len(rows)}
        part(g) == SelectSeq(rows, LAMBDA r : <<SpeedWeek(r.date), r.machine>> = g)
    IN  {[bucket |-> g[1], machine |-> g[2],
          val |-> SumSeq([i \in 1..Len(part(g)) |-> Val(part(g)[i])])] : g \in groups}

\* the loaded table lacks some columns; the filtered table is empty or not
ColumnInputs(d) ==
    {[missing |-> m, empty |-> e] :
        m \in {c \in SUBSET Columns(d) : Cardinality(c) <= MaxMissing}, e \in BOOLEAN}

\* the sections of each script
Views(d) ==
    CASE d = "maintenance" ->
            {"columns", "numeric", "top_station", "top10", "detail", "weekly"}
      [] d = "shortage" ->
            {"columns", "numeric", "short_pct", "machine_pct", "trend", "top_causes",
             "top10", "default_dates", "detail", "weekly"}
      [] d = "speed" ->
            {"columns", "numeric", "loss_summary", "machine_pct", "top10",
             "default_dates", "detail", "weekly", "overall"}

\* what a section can find in the filtered table, the empty table included
Inputs(d, v) ==
    CASE v = "columns" -> ColumnInputs(d)
      [] v = "numeric" -> SeqsUpTo(Cells, MaxOrders)
      [] v = "top_station" -> SeqsUpTo(Stops, MaxOrders)
      [] v = "machine_pct" -> SeqsUpTo(Orders, MaxOrders) \ {<<>>}
      [] v = "top_causes" -> SeqsUpTo(CauseRows, MaxOrders)
      [] v = "top10" -> IF d = "speed" THEN Groupings \cup WithBlank ELSE Groupings
      [] v = "default_dates" -> DateSpans
      [] v = "detail" -> SeqsUpTo(DetailRows, MaxOrders)
      [] v = "weekly" -> WeekDates \X WeekDates
      [] v = "overall" -> SeqsUpTo(OverallRows, MaxTrendRows)
      [] v = "trend" ->
            {[period |-> p, rows |-> t] :
                p \in Periods, t \in SeqsUpTo(TrendRows, MaxTrendRows) \ {<<>>}}
      [] v = "short_pct" -> SeqsUpTo(Orders, MaxOrders)
      [] v = "loss_summary" -> SeqsUpTo(SpeedRows, MaxOrders)

InitRender ==
    /\ dash \in Dashboards
    /\ view \in Views(dash)
    /\ subset \in Inputs(dash, view)
    /\ shown = <<>>
    /\ raised = ""
    /\ rpc = "start"
    /\ df = <<>>
    /\ date_range = <<>>
    /\ sel = <<>>
    /\ fdf = <<>>
    /\ fpc = "off"
    /\ now = 0
    /\ sourceUp = TRUE
    /\ cache = {}
    /\ fetches = 0
    /\ pc = "body"
    /\ clicked = FALSE
    /\ clickMark = -1
    /\ loaded = Unloaded
    /\ lastLoad = "none"
    /\ failed = FALSE
    /\ page = {}
    /\ actFetches = 0

\* the script from the loader's column handling to its last widget
RenderColumns ==
    /\ rpc = "start"
    /\ view = "columns"
    /\ LET run == RunRefs(Refs(dash), subset.missing, subset.empty, {})
       IN  /\ shown' = run.skipped
           /\ raised' = run.raised
    /\ rpc' = "done"
    /\ UNCHANGED <<dash, view, subset>>
    /\ UNCHANGED fvars
    /\ UNCHANGED lvars

\* speed, tab "Loss & Root Cause": the executive summary
RenderLossSummary ==
    /\ rpc = "start"
    /\ view = "loss_summary"
    /\ shown' = LossSummary(subset).shown
    /\ raised' = LossSummary(subset).raised
    /\ rpc' = "done"
    /\ UNCHANGED <<dash, view, subset>>
    /\ UNCHANGED fvars
    /\ UNCHANGED lvars

\* shortage, header and tab 1: the operational summary
RenderShortPct ==
    /\ rpc = "start"
    /\ view = "short_pct"
    /\ shown' = ShortPct(subset)
    /\ raised' = ""
    /\ rpc' = "done"
    /\ UNCHANGED <<dash, view, subset>>
    /\ UNCHANGED fvars
    /\ UNCHANGED lvars

\* maintenance: the third metric
RenderTopStation ==
    /\ rpc = "start"
    /\ view = "top_station"
    /\ shown' \in TopStations(subset)
    /\ raised' = ""
    /\ rpc' = "done"
    /\ UNCHANGED <<dash, view, subset>>
    /\ UNCHANGED fvars
    /\ UNCHANGED lvars

\* a metric that sums a numeric column, and a count of the same rows
RenderNumeric ==
    /\ rpc = "start"
    /\ view = "numeric"
    /\ shown' = [sum |-> SumSkipNa(Coerced(dash, subset)),
                 count |-> Len(Coerced(dash, subset))]
    /\ raised' = ""
    /\ rpc' = "done"
    /\ UNCHANGED <<dash, view, subset>>
    /\ UNCHANGED fvars
    /\ UNCHANGED lvars

\* the stacked bars per machine (shortage section 3, speed tab "Logistics")
RenderMachinePct ==
    /\ rpc = "start"
    /\ view = "machine_pct"
    /\ shown' = MachinePct(subset)
    /\ raised' = ""
    /\ rpc' = "done"
    /\ UNCHANGED <<dash, view, subset>>
    /\ UNCHANGED fvars
    /\ UNCHANGED lvars

\* shortage section 5: the stacked bars per period
RenderTrend ==
    /\ rpc = "start"
    /\ view = "trend"
    /\ shown' = TrendPct(subset.period, subset.rows)
    /\ raised' = ""
    /\ rpc' = "done"
    /\ UNCHANGED <<dash, view, subset>>
    /\ UNCHANGED fvars
    /\ UNCHANGED lvars

\* shortage section 4: the ten most frequent causes with their percentages
RenderTopCauses ==
    /\ rpc = "start"
    /\ view = "top_causes"
    /\ shown' \in TopCauses(subset)
    /\ raised' = ""
    /\ rpc' = "done"
    /\ UNCHANGED <<dash, view, subset>>
    /\ UNCHANGED fvars
    /\ UNCHANGED lvars

\* the top-10 bar chart of each script over a grouping
RenderTop10 ==
    /\ rpc = "start"
    /\ view = "top10"
    /\ shown' \in Top10(dash, subset)
    /\ raised' = ""
    /\ rpc' = "done"
    /\ UNCHANGED <<dash, view, subset>>
    /\ UNCHANGED fvars
    /\ UNCHANGED lvars

\* the date picker of the sidebar is given its default value
RenderDefaultDates ==
    /\ rpc = "start"
    /\ view = "default_dates"
    /\ shown' = IF dash = "shortage"
                THEN ShortageDefault(subset.min, subset.max)
                ELSE SpeedDefault(subset.min, subset.max)
    /\ raised' = ""
    /\ rpc' = "done"
    /\ UNCHANGED <<dash, view, subset>>
    /\ UNCHANGED fvars
    /\ UNCHANGED lvars

\* the table of the filtered rows at the end of each script
RenderDetail ==
    /\ rpc = "start"
    /\ view = "detail"
    /\ shown' \in Detail(dash, subset)
    /\ raised' = ""
    /\ rpc' = "done"
    /\ UNCHANGED <<dash, view, subset>>
    /\ UNCHANGED fvars
    /\ UNCHANGED lvars

\* the trend chart of each script with the weekly period selected
RenderWeekly ==
    /\ rpc = "start"
    /\ view = "weekly"
    /\ shown' = WeekLabels(dash, subset)
    /\ raised' = ""
    /\ rpc' = "done"
    /\ UNCHANGED <<dash, view, subset>>
    /\ UNCHANGED fvars
    /\ UNCHANGED lvars

\* speed: the KPI card OVERALL SPEED and the trend chart of the same name
RenderOverall ==
    /\ rpc = "start"
    /\ view = "overall"
    /\ shown' = [kpi |-> OverallKpi(subset), trend |-> OverallTrend(subset)]
    /\ raised' = ""
    /\ rpc' = "done"
    /\ UNCHANGED <<dash, view, subset>>
    /\ UNCHANGED fvars
    /\ UNCHANGED lvars

NextRender ==
    \/ RenderColumns
    \/ RenderOverall
    \/ RenderWeekly
    \/ RenderDetail
    \/ RenderDefaultDates
    \/ RenderTopCauses
    \/ RenderTop10
    \/ RenderMachinePct
    \/ RenderTrend
    \/ RenderNumeric
    \/ RenderLossSummary
    \/ RenderShortPct
    \/ RenderTopStation

SpecRender == InitRender /\ [][NextRender]_vars

(***************************************************************************)
(* Properties of the filter stage                                          *)
(***************************************************************************)
Without(fs, f) == LET other(x) == x # f IN SelectSeq(fs, other)

\* the run reached the end of the filter stage with a complete interval
Filtered == fpc = "done" /\ Len(date_range) = 2

\* the selection as a predicate on one row, stated without the script's steps
InInterval(row) == date_range[1] <= row.date /\ row.date <= date_range[2]
Accepted(row) == \A f \in FieldSet(dash) : sel[f] # {} => row.cat[f] \in sel[f]
Satisfies(row) == InInterval(row) /\ Accepted(row)

\* the date stage as the script of the running dashboard applies it
Dated ==
    LET keep(row) == DateMask(row, date_range[1], date_range[2])
    IN  IF Len(date_range) = 2 THEN SelectSeq(df, keep) ELSE df

\* C1: with an interval selected, the filtered table is exactly the rows of
\* the loaded table that lie in the interval and are accepted by every
\* multiselect that has a value picked; applying the categorical filters in
\* the opposite order, and the date filter last, gives the same table.
C1_Conjunction ==
    Filtered =>
        /\ fdf = SelectSeq(df, Satisfies)
        /\ LET keep(row) == DateMask(row, date_range[1], date_range[2])
           IN  fdf = SelectSeq(CatChain(df, Reverse(Fields(dash)), sel), keep)

\* two multiselects are active and together with the date they keep a proper,
\* non-empty part of the table
C1_Witness ==
    /\ Filtered
    /\ \E f, g \in FieldSet(dash) : f # g /\ sel[f] # {} /\ sel[g] # {}
    /\ Len(fdf) > 0
    /\ Len(fdf) < Len(df)

\* C2: in every run, whatever the date picker returned, the run does not fail
\* and the filtered table holds only rows dated inside the selection (for a
\* single picked date: not before it).
C2_DateAlwaysApplied ==
    fpc \in {"done", "error"} =>
        /\ fpc # "error"
        /\ \A j \in 1..Len(fdf) :
              /\ fdf[j].date # NaT
              /\ fdf[j].date >= date_range[1]
              /\ Len(date_range) = 2 => fdf[j].date <= date_range[2]

\* C3: the date filter alone keeps row i if and only if start <= date <= end:
\* the rows dated start or end stay, the rows dated the day before start or
\* the day after end go.
C3_InclusiveBothEnds ==
    (Filtered /\ sel = NoPicks(dash)) =>
        LET inside == {i \in 1..Len(df) : df[i].date \in date_range[1]..date_range[2]}
        IN  /\ Len(fdf) = Cardinality(inside)
            /\ \A i \in inside : \E j \in 1..Len(fdf) : fdf[j] = df[i]
            /\ \A j \in 1..Len(fdf) :
                  /\ fdf[j].date # date_range[1] - 1
                  /\ fdf[j].date # date_range[2] + 1

\* a row dated the day before start is removed and a row dated exactly start
\* or exactly end is the one row kept
C3_Witness ==
    /\ Filtered
    /\ sel = NoPicks(dash)
    /\ date_range[1] < date_range[2]
    /\ \E i \in 1..Len(df) : df[i].date # NaT /\ df[i].date = date_range[1] - 1
    /\ Len(fdf) = 1
    /\ fdf[1].date \in {date_range[1], date_range[2]}

\* C4: a multiselect with nothing picked removes no rows: the filtered table
\* equals the one computed by the chain with that filter left out.
C4_EmptyIsNoOp ==
    fpc = "done" =>
        \A f \in FieldSet(dash) :
            sel[f] = {} => fdf = CatChain(Dated, Without(Fields(dash), f), sel)

\* nothing is picked on the first field, another field filters, rows remain
C4_Witness ==
    /\ fpc = "done"
    /\ sel[Fields(dash)[1]] = {}
    /\ \E g \in FieldSet(dash) : sel[g] # {}
    /\ Len(fdf) > 0
    /\ Len(df) > Len(fdf)

\* C5: once the date filter is applied, no row with an unparsed date is in
\* the filtered table.
C5_NoNullDate ==
    Filtered => \A j \in 1..Len(fdf) : fdf[j].date # NaT

\* the table holds a row with an unparsed date and the filter kept another row
C5_Witness ==
    /\ Filtered
    /\ \E i \in 1..Len(df) : df[i].date = NaT
    /\ Len(fdf) > 0

\* C6: the filtered table has at most as many rows as the loaded one, and none
\* when no row is dated inside the selected interval.
C6_CountBound ==
    fpc = "done" =>
        /\ Len(fdf) <= Len(df)
        /\ (Len(date_range) = 2 /\ \A i \in 1..Len(df) : ~InInterval(df[i]))
              => Len(fdf) = 0

\* the interval excludes every row of a table and the filtered table is empty
C6_Witness ==
    /\ Filtered
    /\ Len(df) >= 2
    /\ \A i \in 1..Len(df) : df[i].date # NaT /\ ~InInterval(df[i])
    /\ Len(fdf) = 0

(***************************************************************************)
(* Properties of the life cycle                                            *)
(***************************************************************************)
\* C7: when the fetch of a run fails, the run does not raise, never reaches
\* the reload button or the body (filters, metrics, charts), and ends with the
\* warning on the page.
C7_FailureStopsWithWarning ==
    failed =>
        /\ "exception" \notin page
        /\ pc \notin {"button", "body"}
        /\ pc = "idle" => ("warning" \in page /\ "body" \notin page)

\* C8: after a run whose fetch failed and that ended at the warning, the
\* reload button is on the page, so the user can click it to fetch again.
C8_ReloadAvailableAfterFailure ==
    (pc = "idle" /\ failed /\ "warning" \in page) => "button" \in page

\* C9: once the reload button has been clicked, every run that reaches the body
\* or has finished presents a table that the loader fetched after that click.
C9_ReloadShowsFreshTable ==
    (pc \in {"idle", "body"} /\ clickMark >= 0 /\ loaded # Unloaded)
        => loaded.seq > clickMark

\* a table was cached before the click and the run after the click shows the
\* body on a table fetched later
C9_Witness ==
    /\ pc = "idle"
    /\ clickMark >= 1
    /\ "body" \in page
    /\ ~loaded.empty
    /\ loaded.seq > clickMark

\* C10: a run that finds an entry younger than the ttl gets the cached table
\* and does not fetch; a run that finds no such entry (expired, cleared, never
\* stored) fetches once and leaves in the cache nothing but what that fetch
\* returned.
C10_CacheReuse ==
    [][(pc = "load" /\ pc' # "load") =>
          IF \E e \in cache : now - e.at < TTL(dash)
          THEN /\ fetches' = fetches
               /\ cache' = cache
               /\ \E e \in cache : loaded' = e.table
          ELSE /\ fetches' = fetches + 1
               /\ Cardinality(cache') <= 1
               /\ \A e \in cache' :
                     /\ e.at = now
                     /\ e.table.seq = fetches'
                     /\ loaded' = e.table]_vars

\* without any clear, an entry expired, was fetched again, and the next run
\* reused the new entry
C10_Witness ==
    /\ lastLoad = "hit"
    /\ fetches >= 2
    /\ clickMark = -1
    /\ now >= TTL(dash)
    /\ loaded.seq = fetches

\* C11: a script run attempts at most one fetch, a failed attempt included,
\* and one act of the user (opening the page, changing a widget, clicking the
\* reload button) never causes more than one fetch.
C11_OneFetchPerInteraction ==
    /\ actFetches <= 1
    /\ failed => lastLoad = "miss"

(***************************************************************************)
(* Properties of the rendered sections                                     *)
(***************************************************************************)
\* the widgets of the running script that depend on an absent column
Dependent ==
    {Refs(dash)[i].widget : i \in {j \in 1..Len(Refs(dash)) : Refs(dash)[j].col \in subset.missing}}

\* C12: when columns are absent from the loaded table, the script raises
\* nothing and skips exactly the widgets that depend on an absent column.
C12_AbsentColumnSkipsWidget ==
    (view = "columns" /\ rpc = "done") =>
        /\ raised = ""
        /\ shown = Dependent

\* C13: over every filtered table with the expected columns, the empty one
\* and one whose losses sum to a value that rounds to 0 included, the sections
\* that divide or index (speed's loss summary, shortage's shortage rate,
\* maintenance's top station) complete without raising.
C13_NoErrorOnEmptyOrZero ==
    (view \in {"loss_summary", "short_pct", "top_station"} /\ rpc = "done")
        => raised = ""

\* the numbers of a column, text cells counted as nothing
RECURSIVE NumbersOnly(_)
NumbersOnly(cells) ==
    IF cells = <<>> THEN 0
    ELSE (IF Head(cells).kind = "num" THEN Head(cells).val ELSE 0)
            + NumbersOnly(Tail(cells))

\* C14: a cell of a numeric column that holds text adds 0 to the sum over the
\* column, raises nothing, and its row is still counted.
C14_TextCellCountsAsZero ==
    (view = "numeric" /\ rpc = "done") =>
        /\ raised = ""
        /\ shown.sum = NumbersOnly(subset)
        /\ shown.count = Len(subset)

\* a column with a text cell among numbers has been summed and counted
C14_Witness ==
    /\ view = "numeric"
    /\ rpc = "done"
    /\ \E i \in 1..Len(subset) : subset[i].kind = "text"
    /\ \E i \in 1..Len(subset) : subset[i].kind = "num"
    /\ shown.sum > 0
    /\ shown.count = 3

\* the segments the chart stacks in one bar
Bar(b) == {e \in shown : e.bar = b}

\* C15: in every stacked bar of a percentage chart (one period of the trend,
\* one machine of the machine comparison) the percentages of the segments sum
\* to 100 within 0.1 times the number of segments.
C15_BarSumsToHundred ==
    (view \in {"machine_pct", "trend"} /\ rpc = "done") =>
        \A e \in shown :
            Abs(SumPct(Bar(e.bar)) - 1000) <= Cardinality(Bar(e.bar))

\* p tenths of a percent are x / total * 100 rounded to one decimal
NearestTenth(p, x, total) == 2 * Abs(p * total - 1000 * x) <= total

\* the rows of the section's table of one machine, of one machine and
\* status, with the status SHORT, and of one cause with that status
RowsOfMachine(m) == {i \in 1..Len(subset) : subset[i].mc = m}
RowsOfSegment(m, st) == {i \in RowsOfMachine(m) : subset[i].status = st}
ShortRows == {i \in 1..Len(subset) : subset[i].status = "SHORT"}
RowsOfCause(k) == {i \in ShortRows : subset[i].detail = k}

\* what the machine comparison shows: every (machine, status) pair with its
\* number of rows and that number as a percentage of the machine's rows
MachineSegmentsExact ==
    \A e \in shown :
        /\ e.count = Cardinality(RowsOfSegment(e.bar, e.sub))
        /\ e.count > 0
        /\ NearestTenth(e.pct, e.count, Cardinality(RowsOfMachine(e.bar)))

\* the causes chart counts the SHORT rows of each cause
CauseCountsExact ==
    \A i \in 1..Len(shown) :
        shown[i].value = Cardinality(RowsOfCause(shown[i].key))

\* C16 as stated: every percentage is the group's value over the total of the
\* grouping it belongs to (the machine's rows in the machine comparison, the
\* rows of all causes in the causes chart), times 100, rounded to one decimal,
\* and a count is the group's number of rows.
C16_PctOfOwnGrouping ==
    /\ (view = "machine_pct" /\ rpc = "done") => MachineSegmentsExact
    /\ (view = "top_causes" /\ rpc = "done") =>
          /\ CauseCountsExact
          /\ \A i \in 1..Len(shown) :
                NearestTenth(shown[i].pct, shown[i].value, Cardinality(ShortRows))

\* C16 amended: as above, except that a percentage of the causes chart is the
\* cause's count over the number of all filtered rows (order_total).
C16_PctOfStatedTotal ==
    /\ (view = "machine_pct" /\ rpc = "done") => MachineSegmentsExact
    /\ (view = "top_causes" /\ rpc = "done") =>
          /\ CauseCountsExact
          /\ \A i \in 1..Len(shown) :
                NearestTenth(shown[i].pct, shown[i].value, Len(subset))

\* the rows OK, SHORT, SHORT with one cause: the causes chart shows the cause
\* with the count 2 and 66.7 %
C16_Witness ==
    /\ view = "top_causes"
    /\ rpc = "done"
    /\ Len(subset) = 3
    /\ subset[1].status = "OK"
    /\ subset[2].status = "SHORT"
    /\ subset[3].status = "SHORT"
    /\ \A i \in 1..3 : subset[i].detail = 1
    /\ shown = <<[key |-> 1, value |-> 2, pct |-> 667]>>

\* the groups that enter the ranking of the running script
RankedGroups == IF dash = "speed" THEN Elements(Named(subset)) ELSE Elements(subset)

Shown == {shown[i] : i \in 1..Len(shown)}

C18_TiesKeepOriginalOrder ==
    (view = "top10" /\ rpc = "done") =>
        /\ \A i \in 1..Len(shown) : \A j \in 1..Len(shown) :
              (i < j /\ shown[i].value = shown[j].value)
                  => shown[i].key < shown[j].key
        /\ \A g \in RankedGroups \ Shown : \A r \in Shown :
              g.value = r.value => r.key < g.key

\* C20: in shortage and speed the default interval of the date picker ends on
\* the latest date of the table and covers 7 days, both ends counted, or
\* starts at the earliest date when the table covers fewer; it never starts
\* before the earliest date.
C20_DefaultIsLastSevenDays ==
    (view = "default_dates" /\ rpc = "done") =>
        /\ shown[2] = subset.max
        /\ shown[1] >= subset.min
        /\ shown[2] - shown[1] + 1 = 7 \/ shown[1] = subset.min

\* C21: in each dashboard the detail table shows the filtered rows by date
\* descending: no row is dated earlier than the row below it.
C21_DetailByDateDescending ==
    (view = "detail" /\ rpc = "done") =>
        \A i \in 1..(Len(shown) - 1) : shown[i].date >= shown[i + 1].date

\* a cache entry younger than the ttl that holds the empty table
EmptyCached == \E e \in cache : e.table.empty /\ now < e.at + TTL(dash)

\* C22: in shortage and speed the empty table of a failed fetch is stored like
\* a loaded one; while the entry is younger than the ttl and not cleared, a
\* run makes no fetch, gets the empty table and ends at the warning without
\* the body, whether or not the source is reachable again.
C22_EmptyTableIsCached ==
    /\ [][(dash \in {"shortage", "speed"} /\ failed' /\ ~failed)
             => cache' = {[table |-> [empty |-> TRUE, seq |-> fetches'], at |-> now]}]_vars
    /\ [][(pc = "load" /\ pc' # "load" /\ EmptyCached)
             => /\ fetches' = fetches
                /\ cache' = cache
                /\ loaded'.empty
                /\ pc' = "empty_check"]_vars
    /\ [][(pc = "empty_check" /\ pc' # "empty_check" /\ loaded.empty)
             => /\ pc' = "idle"
                /\ "warning" \in page'
                /\ "body" \notin page']_vars

\* the source is reachable again, and a run that made no fetch has ended at
\* the warning on the empty table an earlier run had stored
C22_Witness ==
    /\ pc = "idle"
    /\ sourceUp
    /\ lastLoad = "hit"
    /\ ~failed
    /\ loaded.empty
    /\ loaded.seq >= 1
    /\ "warning" \in page
    /\ "body" \notin page

\* C23: in the weekly trend, rows of the same weekly bucket get the same
\* label and rows of different weekly buckets get different labels, also in
\* a week that spans a year boundary and in weeks of different years.
C23_WeekBucketLabelOneToOne ==
    (view = "weekly" /\ rpc = "done") =>
        \A a \in shown : \A b \in shown : (a.bucket = b.bucket) <=> (a.label = b.label)

\* the sum of the bars of the trend chart
RECURSIVE SumVal(_)
SumVal(S) ==
    IF S = {} THEN 0
    ELSE LET x == CHOOSE y \in S : TRUE IN x.val + SumVal(S \ {x})

\* C24: in speed, over every filtered table of dated rows, the values of the
\* trend chart summed over all machines and periods equal the unrounded
\* OVERALL SPEED time of the KPI cards, whatever the stop kind of a row is.
C24_TrendSumsToOverall ==
    (view = "overall" /\ rpc = "done") => SumVal(shown.trend) = shown.kpi

====
